---------------------------- MODULE Spec2Model ----------------------------
(***************************************************************************)
(* A model of the ExceLint add-in task pane (src/taskpane/components/      *)
(* App.tsx): the staged fat-cross analysis incrementalFatCrossAnalysis,    *)
(* the handlers that drain it, and the host (Excel) calls they await.      *)
(*                                                                         *)
(* The analysis engine the add-in imports from core/src (Colorize,         *)
(* RectangleUtils, XLNT.Dictionary, ...) is not among the source files; it *)
(* is modelled from the specification's sections 3 and 4.                  *)
(***************************************************************************)
EXTENDS Integers, Sequences, FiniteSets, TLC

(***************************************************************************)
(* Bounds of the model.                                                    *)
(***************************************************************************)
\* the sheet is a GridW x GridH grid of cells, addresses 1-based
GridW == 2
GridH == 4
\* how many change events (handler invocations) one behaviour holds
MaxEvents == 2
\* how many awaited host calls may be rejected in one behaviour
MaxFaults == 1

(***************************************************************************)
(* Spatial vectors, rectangles, ranges (spec section 3).                   *)
(***************************************************************************)
Vec(x, y, z) == <<x, y, z>>

VecSub(a, b) == Vec(a[1] - b[1], a[2] - b[2], a[3] - b[3])

VecAdd(a, b) == Vec(a[1] + b[1], a[2] + b[2], a[3] + b[3])

\* every address of the sheet
Cells == {Vec(x, y, 0) : x \in 1..GridW, y \in 1..GridH}

\* XLNT.Range: two corners on one sheet
Range(ulc, ulr, brc, brr) ==
  [upperLeftColumn |-> ulc, upperLeftRow |-> ulr,
   bottomRightColumn |-> brc, bottomRightRow |-> brr]

RangeContains(r, a) ==
  /\ r.upperLeftColumn <= a[1] /\ a[1] <= r.bottomRightColumn
  /\ r.upperLeftRow <= a[2] /\ a[2] <= r.bottomRightRow

\* XLNT.Rectangle: two corner vectors
Rect(ul, br) == [upperleft |-> ul, bottomright |-> br]

RectCells(r) ==
  {Vec(x, y, 0) : x \in r.upperleft[1]..r.bottomright[1],
                  y \in r.upperleft[2]..r.bottomright[2]}

RectSize(r) ==
  (r.bottomright[1] - r.upperleft[1] + 1) * (r.bottomright[2] - r.upperleft[2] + 1)

RectContains(r, a) ==
  /\ r.upperleft[1] <= a[1] /\ a[1] <= r.bottomright[1]
  /\ r.upperleft[2] <= a[2] /\ a[2] <= r.bottomright[2]

\* Range.rectangle()
RangeRectangle(r) ==
  Rect(Vec(r.upperLeftColumn, r.upperLeftRow, 0),
       Vec(r.bottomRightColumn, r.bottomRightRow, 0))

Min(a, b) == IF a <= b THEN a ELSE b

Max(a, b) == IF a >= b THEN a ELSE b

\* the bounding box of two rectangles
RectUnion(a, b) ==
  Rect(Vec(Min(a.upperleft[1], b.upperleft[1]), Min(a.upperleft[2], b.upperleft[2]), 0),
       Vec(Max(a.bottomright[1], b.bottomright[1]), Max(a.bottomright[2], b.bottomright[2]), 0))

\* adjacent along a full edge, or overlapping, with a rectangular union:
\* the union of the two cell sets is exactly their bounding box
RectMergeable(a, b) ==
  RectCells(a) \cup RectCells(b) = RectCells(RectUnion(a, b))

\* Rectangle.expand(): the addresses of a rectangle, row by row
RECURSIVE ExpandFrom(_, _, _)
ExpandFrom(r, x, y) ==
  IF y > r.bottomright[2] THEN <<>>
  ELSE IF x > r.bottomright[1] THEN ExpandFrom(r, r.upperleft[1], y + 1)
  ELSE <<Vec(x, y, 0)>> \o ExpandFrom(r, x + 1, y)

RectExpand(r) == ExpandFrom(r, r.upperleft[1], r.upperleft[2])

Reverse(l) == [i \in 1..Len(l) |-> l[Len(l) + 1 - i]]

(***************************************************************************)
(* XLNT.Dictionary: an insertion-ordered mapping, a sequence of entries    *)
(* with distinct keys.  A vector's key (asKey) is modelled by the vector.  *)
(***************************************************************************)
EmptyDict == <<>>

DictKeys(d) == {d[i].key : i \in 1..Len(d)}

DictContains(d, k) == \E i \in 1..Len(d) : d[i].key = k

\* the value a key maps to; only used where the key is present
DictGet(d, k) == d[CHOOSE i \in 1..Len(d) : d[i].key = k].val

DictPut(d, k, v) ==
  IF DictContains(d, k)
  THEN [i \in 1..Len(d) |-> IF d[i].key = k THEN [key |-> k, val |-> v] ELSE d[i]]
  ELSE Append(d, [key |-> k, val |-> v])

\* keyFilter(p): the entries whose key is in the set K, in order
RECURSIVE DictKeyFilter(_, _)
DictKeyFilter(d, K) ==
  IF d = <<>> THEN <<>>
  ELSE (IF Head(d).key \in K THEN <<Head(d)>> ELSE <<>>) \o DictKeyFilter(Tail(d), K)

\* a.merge(b): the overriding side b wins on a key both hold
RECURSIVE DictMerge(_, _)
DictMerge(a, b) ==
  IF b = <<>> THEN a
  ELSE DictMerge(DictPut(a, Head(b).key, Head(b).val), Tail(b))


(***************************************************************************)
(* The host sheet.  A cell holds one of a few kinds of content; the host   *)
(* renders its formula text (Excel.Range.formulas) as a sequence of        *)
(* tokens: characters, and references to a cell or to a range of cells as  *)
(* absolute 1-based addresses.                                             *)
(***************************************************************************)
Ch(s) == [kind |-> "ch", ch |-> s, ref |-> Vec(0, 0, 0), to |-> Vec(0, 0, 0)]

Ref(v) == [kind |-> "ref", ch |-> "", ref |-> v, to |-> v]

\* a range reference such as A1:A5
RangeRef(a, b) == [kind |-> "range", ch |-> "", ref |-> a, to |-> b]

\* what a cell may hold: nothing, a plain number, a formula referring to the
\* cell on its right, one referring to the cell below, a formula with no
\* reference, a formula entered with a leading plus or minus, and a formula
\* whose expression begins with a minus
ContentKinds == {"empty", "num", "fA", "fB", "fK", "pA", "mA", "fM"}

HostFormulaText(c, kind) ==
  CASE kind = "empty" -> <<>>
    [] kind = "num" -> <<Ch("5")>>
    [] kind = "fA" -> <<Ch("="), Ref(VecAdd(c, Vec(1, 0, 0)))>>
    [] kind = "fB" -> <<Ch("="), Ref(VecAdd(c, Vec(0, 1, 0)))>>
    [] kind = "fK" -> <<Ch("="), Ch("5")>>
    [] kind = "pA" -> <<Ch("+"), Ref(VecAdd(c, Vec(1, 0, 0)))>>
    [] kind = "mA" -> <<Ch("-"), Ref(VecAdd(c, Vec(1, 0, 0)))>>
    [] kind = "fM" -> <<Ch("="), Ch("-"), Ref(VecAdd(c, Vec(1, 0, 0)))>>

\* Excel's used range: the bounding box of the cells that hold something
\* (A1 for a sheet that holds nothing)
HostUsedRange(sh) ==
  LET used == {c \in Cells : sh[c] # "empty"}
      xs == {c[1] : c \in used}
      ys == {c[2] : c \in used}
      lo(S) == CHOOSE m \in S : \A n \in S : m <= n
      hi(S) == CHOOSE m \in S : \A n \in S : n <= m
  IN IF used = {} THEN Range(1, 1, 1, 1)
     ELSE Range(lo(xs), lo(ys), hi(xs), hi(ys))

IsFormulaMarker(tok) == tok.kind = "ch" /\ tok.ch \in {"=", "+", "-"}

\* a variant that removes the marker of every formula
FormulaEntryStripAll(val) == Tail(val)

\* the dictionary entry kept for one cell value (App.tsx 424-435)
FormulaEntry(val) ==
  IF val[1].ch = "=" THEN Tail(val) ELSE val

\* App.getFormulasFromRange: the formulas of range r, keyed by 1-based
\* address, rows outermost
RECURSIVE FormulasFrom(_, _, _, _)
FormulasFrom(sh, r, row, col) ==
  IF row > r.bottomRightRow - r.upperLeftRow THEN EmptyDict
  ELSE IF col > r.bottomRightColumn - r.upperLeftColumn
       THEN FormulasFrom(sh, r, row + 1, 0)
  ELSE LET key == Vec(r.upperLeftColumn + col, r.upperLeftRow + row, 0)
           val == HostFormulaText(key, sh[key])
           rest == FormulasFrom(sh, r, row, col + 1)
       IN IF Len(val) > 0 /\ IsFormulaMarker(val[1])
          THEN <<[key |-> key, val |-> FormulaEntry(val)]>> \o rest
          ELSE rest

getFormulasFromRange(sh, r) == FormulasFrom(sh, r, 0, 0)

(***************************************************************************)
(* Reference Extractor and Fingerprint Engine (spec 4.1, 4.2).             *)
(***************************************************************************)
\* the cells a token refers to; a range gives its cells from the last to
\* the first
TokenCells(tok) ==
  IF tok.kind = "ref" THEN <<tok.ref>>
  ELSE IF tok.kind = "range" THEN Reverse(RectExpand(Rect(tok.ref, tok.to)))
  ELSE <<>>

\* a parsed reference counts columns and rows from 0
ZeroBased(v) == Vec(v[1] - 1, v[2] - 1, v[3])

\* a variant that takes the parsed reference as a 1-based address
RECURSIVE RelativeRefsOneBased(_, _)
RelativeRefsOneBased(text, addr) ==
  IF text = <<>> THEN <<>>
  ELSE LET cs == TokenCells(Head(text))
       IN [n \in 1..Len(cs) |-> VecSub(cs[n], addr)] \o RelativeRefsOneBased(Tail(text), addr)

\* the references of a formula text, relative to the formula's address: the
\* parsed reference minus the address as given (analysis.test.ts 4-20: the
\* formula at (0,5,0) is at offset (0,-1,0) from A5)
RECURSIVE RelativeRefs(_, _)
RelativeRefs(text, addr) ==
  IF text = <<>> THEN <<>>
  ELSE LET cs == TokenCells(Head(text))
       IN [n \in 1..Len(cs) |-> VecSub(ZeroBased(cs[n]), addr)] \o RelativeRefs(Tail(text), addr)

\* a variant that leaves out the formulas without a reference
relativeFormulaRefsSkipEmpty(fs) ==
  LET all == [i \in 1..Len(fs) |-> [key |-> fs[i].key, val |-> RelativeRefs(fs[i].val, fs[i].key)]]
      some(e) == e.val # <<>>
  IN SelectSeq(all, some)

relativeFormulaRefs(fs) ==
  [i \in 1..Len(fs) |-> [key |-> fs[i].key, val |-> RelativeRefs(fs[i].val, fs[i].key)]]

\* a fingerprint is an injective summary of the ordered offset list
Fingerprint(refs) == <<"fp", refs>>

fingerprints(fRefs) ==
  [i \in 1..Len(fRefs) |-> [key |-> fRefs[i].key, val |-> Fingerprint(fRefs[i].val)]]

(***************************************************************************)
(* Group Decomposer (spec 4.3).                                            *)
(***************************************************************************)
SetMax(S) == CHOOSE m \in S : \A n \in S : n <= m

\* the first cell of S, rows first
FirstCell(S) ==
  CHOOSE c \in S : \A d \in S : c[2] < d[2] \/ (c[2] = d[2] /\ c[1] <= d[1])

\* the rectangle grown from the first cell of S: along its row as far as S
\* reaches, then down while the whole row segment is in S
GrowRect(S) ==
  LET c == FirstCell(S)
      x2 == SetMax({x \in c[1]..SetMax({d[1] : d \in S}) :
                      \A xx \in c[1]..x : Vec(xx, c[2], 0) \in S})
      y2 == SetMax({y \in c[2]..SetMax({d[2] : d \in S}) :
                      \A yy \in c[2]..y : \A xx \in c[1]..x2 : Vec(xx, yy, 0) \in S})
  IN Rect(c, Vec(x2, y2, 0))

\* a variant that makes every cell a rectangle of its own
RECURSIVE DecomposeCells(_)
DecomposeCells(S) ==
  IF S = {} THEN <<>>
  ELSE <<Rect(FirstCell(S), FirstCell(S))>> \o DecomposeCells(S \ {FirstCell(S)})

RECURSIVE Decompose(_)
Decompose(S) ==
  IF S = {} THEN <<>>
  ELSE LET r == GrowRect(S) IN <<r>> \o Decompose(S \ RectCells(r))

\* the distinct values of a dictionary, in order of first appearance
RECURSIVE DistinctVals(_, _)
DistinctVals(d, seen) ==
  IF d = <<>> THEN <<>>
  ELSE IF Head(d).val \in seen THEN DistinctVals(Tail(d), seen)
  ELSE <<Head(d).val>> \o DistinctVals(Tail(d), seen \cup {Head(d).val})

identify_groups(fps) ==
  LET fpl == DistinctVals(fps, {})
  IN [i \in 1..Len(fpl) |->
        [key |-> fpl[i],
         val |-> Decompose({fps[j].key : j \in {n \in 1..Len(fps) : fps[n].val = fpl[i]}})]]

(***************************************************************************)
(* Incremental Merger (spec 4.4).                                          *)
(***************************************************************************)
mergeRectangleDictionaries(newGroups, oldGroups) ==
  [i \in 1..Len(newGroups) |->
     [key |-> newGroups[i].key,
      val |-> newGroups[i].val \o
              (IF DictContains(oldGroups, newGroups[i].key)
               THEN DictGet(oldGroups, newGroups[i].key) ELSE <<>>)]]
  \o DictKeyFilter(oldGroups, DictKeys(oldGroups) \ DictKeys(newGroups))

\* s without its j-th element
RemoveAt(s, j) == [i \in 1..(Len(s) - 1) |-> IF i < j THEN s[i] ELSE s[i + 1]]

\* a variant that coalesces the first mergeable pair only
MergeListOnce(l) ==
  LET pairs == {p \in (1..Len(l)) \X (1..Len(l)) : p[1] < p[2] /\ RectMergeable(l[p[1]], l[p[2]])}
  IN IF pairs = {} THEN l
     ELSE LET p == CHOOSE q \in pairs : \A o \in pairs :
                      q[1] < o[1] \/ (q[1] = o[1] /\ q[2] <= o[2])
          IN RemoveAt([l EXCEPT ![p[1]] = RectUnion(l[p[1]], l[p[2]])], p[2])

\* coalesce mergeable pairs of one list until none is left
RECURSIVE MergeList(_)
MergeList(l) ==
  LET pairs == {p \in (1..Len(l)) \X (1..Len(l)) : p[1] < p[2] /\ RectMergeable(l[p[1]], l[p[2]])}
  IN IF pairs = {} THEN l
     ELSE LET p == CHOOSE q \in pairs : \A o \in pairs :
                      q[1] < o[1] \/ (q[1] = o[1] /\ q[2] <= o[2])
          IN MergeList(RemoveAt([l EXCEPT ![p[1]] = RectUnion(l[p[1]], l[p[2]])], p[2]))

mergeRectangles(groups) ==
  [i \in 1..Len(groups) |-> [key |-> groups[i].key, val |-> MergeList(groups[i].val)]]

(***************************************************************************)
(* Fix Generator and Filters (spec 4.5).                                   *)
(***************************************************************************)
\* Config.reportingThreshold: the least score a surfaced fix may have
ReportingThreshold == 2

\* what a differing style takes off a fix's score
StylePenalty == 1

ProposedFix(r1, r2, sc) == [rect1 |-> r1, rect2 |-> r2, score |-> sc]

\* ProposedFix.includesCellAt
IncludesCellAt(pf, a) == RectContains(pf.rect1, a) \/ RectContains(pf.rect2, a)

\* fixes are equal as unordered pairs of rectangles
PairEqual(f, g) ==
  \/ f.rect1 = g.rect1 /\ f.rect2 = g.rect2
  \/ f.rect1 = g.rect2 /\ f.rect2 = g.rect1

\* a lone cell beside a larger block scores higher than two blocks of a size
FixScore(r1, r2) ==
  Max(RectSize(r1), RectSize(r2)) - Min(RectSize(r1), RectSize(r2)) + 1

\* a variant that takes two rectangles for adjacent as soon as a cell of
\* one is beside a cell of the other
FixCandidateTouching(r1, r2) ==
  \/ RectCells(r1) \cap RectCells(r2) # {}
  \/ \E a \in RectCells(r1), b \in RectCells(r2) :
        \/ a[1] = b[1] /\ (a[2] - b[2] = 1 \/ b[2] - a[2] = 1)
        \/ a[2] = b[2] /\ (a[1] - b[1] = 1 \/ b[1] - a[1] = 1)

\* rectangles of different fingerprints that are adjacent along a full edge
\* or overlapping
FixCandidate(r1, r2) ==
  \/ RectCells(r1) \cap RectCells(r2) # {}
  \/ RectMergeable(r1, r2)

\* the concatenation of a sequence of sequences
RECURSIVE Flatten(_)
Flatten(ss) == IF ss = <<>> THEN <<>> ELSE Head(ss) \o Flatten(Tail(ss))

\* the candidate fixes between the i-th and the j-th fingerprint's rectangles
PairFixes(groups, i, j) ==
  LET a == groups[i].val
      b == groups[j].val
      one(m, n) == IF FixCandidate(a[m], b[n])
                   THEN <<ProposedFix(a[m], b[n], FixScore(a[m], b[n]))>> ELSE <<>>
  IN Flatten([m \in 1..Len(a) |-> Flatten([n \in 1..Len(b) |-> one(m, n)])])

generate_proposed_fixes(groups) ==
  Flatten([i \in 1..Len(groups) |->
             Flatten([k \in 1..(Len(groups) - i) |-> PairFixes(groups, i, i + k)])])

\* keep the first fix of every unordered pair
RECURSIVE DedupFrom(_, _)
DedupFrom(fixes, kept) ==
  IF fixes = <<>> THEN kept
  ELSE IF \E i \in 1..Len(kept) : PairEqual(kept[i], Head(fixes))
       THEN DedupFrom(Tail(fixes), kept)
       ELSE DedupFrom(Tail(fixes), Append(kept, Head(fixes)))

\* a variant that takes two fixes for duplicates only when they name their
\* rectangles in the same order
RECURSIVE filterDuplicateFixesOrdered(_)
filterDuplicateFixesOrdered(fixes) ==
  IF fixes = <<>> THEN <<>>
  ELSE LET init == filterDuplicateFixesOrdered(SubSeq(fixes, 1, Len(fixes) - 1))
           last == fixes[Len(fixes)]
       IN IF \E i \in 1..Len(init) :
                init[i].rect1 = last.rect1 /\ init[i].rect2 = last.rect2
          THEN init ELSE Append(init, last)

filterDuplicateFixes(fixes) == DedupFrom(fixes, <<>>)

\* a variant that keeps the fixes at or below the threshold
filterFixesByUserThresholdBelow(fixes, threshold) ==
  LET keep(f) == f.score <= threshold IN SelectSeq(fixes, keep)

filterFixesByUserThreshold(fixes, threshold) ==
  LET keep(f) == f.score >= threshold IN SelectSeq(fixes, keep)

\* a variant that drops a fix whose representative cells differ in style
adjustProposedFixesByStyleHashDropping(fixes, styles) ==
  LET same(f) == ~(/\ DictContains(styles, f.rect1.upperleft)
                   /\ DictContains(styles, f.rect2.upperleft)
                   /\ DictGet(styles, f.rect1.upperleft) # DictGet(styles, f.rect2.upperleft))
  IN SelectSeq(fixes, same)

\* a variant that takes a missing style entry for a style of its own
adjustProposedFixesByStyleHashMissingDiffers(fixes, styles) ==
  [i \in 1..Len(fixes) |->
     LET k1 == fixes[i].rect1.upperleft
         k2 == fixes[i].rect2.upperleft
         h1 == IF DictContains(styles, k1) THEN DictGet(styles, k1) ELSE <<"none", k1>>
         h2 == IF DictContains(styles, k2) THEN DictGet(styles, k2) ELSE <<"none", k2>>
     IN IF h1 # h2 THEN [fixes[i] EXCEPT !.score = @ - StylePenalty] ELSE fixes[i]]

\* lower the score of a fix whose representative (upper-left) cells both have
\* a style hash and differ in it; no fix is removed
adjustProposedFixesByStyleHash(fixes, styles) ==
  [i \in 1..Len(fixes) |->
     LET k1 == fixes[i].rect1.upperleft
         k2 == fixes[i].rect2.upperleft
     IN IF /\ DictContains(styles, k1) /\ DictContains(styles, k2)
           /\ DictGet(styles, k1) # DictGet(styles, k2)
        THEN [fixes[i] EXCEPT !.score = @ - StylePenalty]
        ELSE fixes[i]]

\* the heuristic veto: a fix one of whose sides is a constant-only region
\* (its representative formula has no reference) is suppressed
filterFixKeeps(fix, formula1, formula2) ==
  /\ \E i \in 1..Len(formula1) : formula1[i].kind \in {"ref", "range"}
  /\ \E i \in 1..Len(formula2) : formula2[i].kind \in {"ref", "range"}

(***************************************************************************)
(* Fat-Cross Navigator (spec 4.6): the four strips from the target cell to *)
(* the edges of the bounding range, the target cell included in each.      *)
(***************************************************************************)
\* the analysis is not runnable for a target outside the bounding range
FatCrossFails(rng, addr) == ~RangeContains(rng, addr)

findFatCross(rng, addr) ==
  [up    |-> Range(addr[1], rng.upperLeftRow, addr[1], addr[2]),
   left  |-> Range(rng.upperLeftColumn, addr[2], addr[1], addr[2]),
   down  |-> Range(addr[1], addr[2], addr[1], rng.bottomRightRow),
   right |-> Range(addr[1], addr[2], rng.bottomRightColumn, addr[2])]

(***************************************************************************)
(* One stage of incrementalFatCrossAnalysis (App.tsx 115-187), as the      *)
(* pure steps it is made of.                                               *)
(***************************************************************************)
\* a variant that takes the left arm first
StepsLeftFirst(fc) == <<fc.left, fc.up, fc.down, fc.right>>

\* the order the arms are processed in (App.tsx 98)
Steps(fc) == <<fc.up, fc.left, fc.down, fc.right>>

\* a variant that hands every formula of the range to every stage
ArmFormulasUnfiltered(all_formulas, arm) == all_formulas

\* the formulas inside one arm (App.tsx 121-127)
ArmFormulas(all_formulas, arm) ==
  LET fAddrs == RectExpand(RangeRectangle(arm))
  IN DictKeyFilter(all_formulas, {fAddrs[n] : n \in 1..Len(fAddrs)})

\* a variant that forgets the rectangles of the earlier arms
FoldArmFresh(rects, fs) == identify_groups(fingerprints(relativeFormulaRefs(fs)))

\* the bounding box of a list of rectangles
RECURSIVE BoundingAll(_)
BoundingAll(l) ==
  IF Len(l) = 1 THEN l[1] ELSE RectUnion(Head(l), BoundingAll(Tail(l)))

\* a variant that joins the rectangles of a fingerprint into their bounding
\* box, mergeable or not
FoldArmBounding(rects, fs) ==
  LET stepRects == identify_groups(fingerprints(relativeFormulaRefs(fs)))
      merged == mergeRectangleDictionaries(stepRects, rects)
  IN [i \in 1..Len(merged) |->
        [key |-> merged[i].key, val |-> <<BoundingAll(merged[i].val)>>]]

\* the arm's rectangles folded into the accumulated ones (App.tsx 133-144)
FoldArm(rects, fs) ==
  LET stepRects == identify_groups(fingerprints(relativeFormulaRefs(fs)))
  IN mergeRectangles(mergeRectangleDictionaries(stepRects, rects))

\* a variant that keeps every fix
FilterByTargetKeepsAll(pfs, addr) == pfs

\* the fixes that include the target (App.tsx 152-153)
FilterByTarget(pfs, addr) ==
  LET inc(pf) == IncludesCellAt(pf, addr) IN SelectSeq(pfs, inc)

\* App.tsx 146-159
StageFixes(rects, styles, addr) ==
  LET pfs == generate_proposed_fixes(rects)
      pfs2 == filterDuplicateFixes(pfs)
      pfs3 == FilterByTarget(pfs2, addr)
      pfs4 == filterFixesByUserThreshold(pfs3, ReportingThreshold)
  IN adjustProposedFixesByStyleHash(pfs4, styles)

\* rectf's lookup of a representative formula hits an absent key (App.tsx 165-169)
RectfThrows(pfs4, all_formulas) ==
  \E n \in 1..Len(pfs4) :
     \/ ~DictContains(all_formulas, pfs4[n].rect1.upperleft)
     \/ ~DictContains(all_formulas, pfs4[n].rect2.upperleft)

\* the fixes the heuristic filter lets through (App.tsx 161-173)
HeuristicFixes(pfs4, all_formulas) ==
  LET keep(fix) == filterFixKeeps(fix, DictGet(all_formulas, fix.rect1.upperleft),
                                       DictGet(all_formulas, fix.rect2.upperleft))
  IN SelectSeq(pfs4, keep)

\* the tagged values of core/src/option; No carries nothing
No == [type |-> "no", value |-> <<>>]

Possibly(pfs) == [type |-> "possibly", value |-> pfs]

Definitely(pfs) == [type |-> "definitely", value |-> pfs]

\* a variant that reports "no anomaly" as soon as a stage finds no fix
StageYieldEarlyNo(i, n, proposed_fixes) ==
  IF Len(proposed_fixes) = 0 THEN No
  ELSE IF i = n - 1 THEN Definitely(proposed_fixes) ELSE Possibly(proposed_fixes)

\* what stage i (0-based) of n yields (App.tsx 175-187)
StageYield(i, n, proposed_fixes) ==
  IF i = n - 1
  THEN IF Len(proposed_fixes) = 0 THEN No ELSE Definitely(proposed_fixes)
  ELSE Possibly(proposed_fixes)

\* what the generator returns after the loop (App.tsx 189-195)
FinalReturn(proposed_fixes) ==
  IF Len(proposed_fixes) = 0 THEN No ELSE Definitely(proposed_fixes)

\* the handler's switch on a yielded value (App.tsx 789-827): the fixes it
\* holds afterwards
FoundAfter(found_fixes, v) ==
  IF v.type = "no" THEN found_fixes ELSE v.value

(***************************************************************************)
(* The state: the host sheet, the App's React state, and one record per    *)
(* invocation of onRangeChange (with the generator it drains).             *)
(***************************************************************************)
VARIABLES
  sheet,       \* the content of every cell
  fmt,         \* the style hash of every cell
  fill,        \* the fill colour of every cell
  debug,       \* AppState.debug
  use_styles,  \* AppState.use_styles
  fixes,       \* AppState.fixes
  canRestore,  \* AppState.canRestore
  onclick,     \* the handler whose old colours the restore button is bound to, 0: null
  hs,          \* the handler invocations
  turn,        \* the invocation running on the JS thread, 0: the event loop is idle
  started,     \* how many change events were dispatched
  faults,      \* how many host calls were rejected
  probe,       \* one call of a pure step of the engine: its argument and result
  pane         \* the formula input of the task pane and the selection handlers

vars == <<sheet, fmt, fill, debug, use_styles, fixes, canRestore, onclick, hs, turn, started,
          faults, probe, pane>>

Handlers == 1..MaxEvents

\* the debug colours of the four arms (App.tsx 101)
debug_colors == <<"#CBAACB", "#FFCCB6", "#ABDEE6", "#F3B0C3">>

NoFill == "#FFFFFF"

\* no pure step was called
NoProbe == [fn |-> "none", arg |-> <<>>, out |-> <<>>, done |-> FALSE]

\* how many selection-change events one behaviour holds
MaxSelections == 3

\* App.inputListener as constructed (App.tsx 306): a function that does
\* nothing, registered nowhere
DefaultListener == [id |-> 0, addr |-> Vec(0, 0, 0)]

\* the task pane after construction: no listener on the formula input, no
\* selection-change event so far
InitialPane ==
  [inputListener |-> DefaultListener,
   listeners |-> {},
   sel |-> [n \in 1..MaxSelections |-> [pc |-> "idle", single |-> FALSE, addr |-> Vec(0, 0, 0)]],
   selected |-> 0,
   processed |-> 0,
   changeat |-> ""]

IdleHandler ==
  [pc |-> "idle", addr |-> Vec(0, 0, 0), single |-> FALSE,
   usedRange |-> Range(0, 0, 0, 0), use_colors |-> FALSE, use_styles |-> FALSE,
   all_formulas |-> <<>>, i |-> 0, fs |-> <<>>, rects |-> <<>>, styles |-> <<>>, ss |-> <<>>,
   proposed_fixes |-> <<>>, old_colors |-> <<>>, pending |-> <<>>,
   found_fixes |-> <<>>, yields |-> <<>>, ret |-> <<>>, cut |-> FALSE,
   setStates |-> 0, published |-> <<>>, failedAt |-> 0, rejected |-> FALSE]

\* the positions at which an invocation awaits a host call
Waiting(g) == g.pc \in {"usedRange", "load", "formulas", "color", "style"}

\* a stage has begun and has not yielded yet
MidStage(g) == g.pc \in {"color", "style", "compute"}

Finished(g) == g.pc \in {"done", "failed"}

\* the arm stage g.i works on
Arm(g) == Steps(findFatCross(g.usedRange, g.addr))[g.i + 1]

\* a variant that reads the formatting whatever the setting
EnterStylesAlways(g) == [g EXCEPT !.pc = "style", !.ss = EmptyDict]

\* the formatting read, or not (App.tsx 129-130)
EnterStyles(g) ==
  IF g.use_styles
  THEN [g EXCEPT !.pc = "style", !.ss = EmptyDict]
  ELSE [g EXCEPT !.pc = "compute", !.ss = EmptyDict]

\* the beginning of a stage, up to its first await (App.tsx 115-119)
EnterStage(g) ==
  IF g.use_colors THEN [g EXCEPT !.pc = "color"] ELSE EnterStyles(g)

\* no invocation is in flight
Quiet == \A h \in Handlers : hs[h].pc = "idle" \/ Finished(hs[h])

\* who holds the JS thread after invocation h reached g
TurnAfter(h, g) == IF Waiting(g) \/ Finished(g) THEN 0 ELSE h

\* another handler ran: every stage in progress was cut by it
MarkCut(hsx, e) ==
  [k \in Handlers |->
     IF k # e /\ MidStage(hsx[k]) THEN [hsx[k] EXCEPT !.cut = TRUE] ELSE hsx[k]]

\* the queued fill writes of a context reach the sheet at its next sync
ApplyPending(fl, pending) ==
  IF pending = <<>> THEN fl
  ELSE [c \in Cells |->
          IF RangeContains(pending[1].range, c) THEN pending[1].color ELSE fl[c]]

\* Range.format.fill.color of a range: the colour its cells share, "" if mixed
RangeFill(fl, r) ==
  LET cs == {c \in Cells : RangeContains(r, c)}
  IN IF \E col \in {fl[c] : c \in cs} : \A c \in cs : fl[c] = col
     THEN fl[CHOOSE c \in cs : TRUE] ELSE ""

(***************************************************************************)
(* The sheets a behaviour may start from: formulas of one shape, but for   *)
(* one rectangular block of cells that hold something else, which may      *)
(* also be formatted differently.                                          *)
(***************************************************************************)
Blocks ==
  {r \in {Rect(a, b) : a \in Cells, b \in Cells} :
     r.upperleft[1] <= r.bottomright[1] /\ r.upperleft[2] <= r.bottomright[2]}

\* what the block holds and how it is formatted
BlockVariants == {<<"fB", "s1">>, <<"fB", "s2">>, <<"fK", "s1">>, <<"empty", "s1">>}

SheetWith(b, k) == [c \in Cells |-> IF RectContains(b, c) THEN k ELSE "fA"]

StyleWith(b, st) == [c \in Cells |-> IF RectContains(b, c) THEN st ELSE "s1"]

Init ==
  /\ \E b \in Blocks, v \in BlockVariants :
       /\ sheet = SheetWith(b, v[1])
       /\ fmt = StyleWith(b, v[2])
  /\ fill = [c \in Cells |-> NoFill]
  /\ debug = FALSE
  /\ use_styles = FALSE
  /\ fixes = <<>>
  /\ canRestore = FALSE
  /\ onclick = 0
  /\ hs = [h \in Handlers |-> IdleHandler]
  /\ turn = 0
  /\ started = 0
  /\ faults = 0
  /\ probe = NoProbe
  /\ pane = InitialPane

(***************************************************************************)
(* App.onRangeChange (App.tsx 758-848) draining incrementalFatCrossAnalysis*)
(* (App.tsx 82-196).  An action runs from the resolution of one awaited    *)
(* host call to the next await; between a yield and the resumption that    *)
(* follows it only microtasks run, so the invocation keeps the thread.     *)
(***************************************************************************)
\* the host dispatches a change event: the handler runs up to the await of
\* getCurrentUsedRange (App.tsx 758-764)
Start(h, a, one) ==
  /\ turn = 0
  /\ started < MaxEvents
  /\ h = started + 1
  /\ started' = started + 1
  /\ hs' = [MarkCut(hs, h) EXCEPT
              ![h] = [IdleHandler EXCEPT !.pc = "usedRange", !.addr = a, !.single = one]]
  /\ UNCHANGED <<pane, sheet, fmt, fill, debug, use_styles, fixes, canRestore, onclick, turn, faults,
                 probe>>

\* the used range arrives; the changed range is loaded (App.tsx 384-390, 766-768)
ResolveUsedRange(h) ==
  /\ turn = 0
  /\ hs[h].pc = "usedRange"
  /\ hs' = [MarkCut(hs, h) EXCEPT
              ![h] = [hs[h] EXCEPT !.pc = "load", !.usedRange = HostUsedRange(sheet)]]
  /\ UNCHANGED <<pane, sheet, fmt, fill, debug, use_styles, fixes, canRestore, onclick, turn,
                 started, faults, probe>>

\* a variant that goes on whatever the target
GenStartUnchecked(g) == [g EXCEPT !.pc = "formulas"]

\* the generator's first next(), up to the await of getFormulasFromRange
\* (App.tsx 94-105); findFatCross raises for a target outside the range
GenStart(g) ==
  IF FatCrossFails(g.usedRange, g.addr)
  THEN [g EXCEPT !.pc = "failed"]
  ELSE [g EXCEPT !.pc = "formulas"]

\* the changed range is loaded: a single cell starts the analysis with the
\* App's current settings (App.tsx 770-787)
ResolveLoad(h) ==
  /\ turn = 0
  /\ hs[h].pc = "load"
  /\ hs' = [MarkCut(hs, h) EXCEPT
              ![h] = IF hs[h].single
                     THEN GenStart([hs[h] EXCEPT !.use_colors = debug,
                                                 !.use_styles = use_styles])
                     ELSE [hs[h] EXCEPT !.pc = "done"]]
  /\ UNCHANGED <<pane, sheet, fmt, fill, debug, use_styles, fixes, canRestore, onclick, turn,
                 started, faults, probe>>

\* all formulas of the range arrive; stage 1 begins (App.tsx 105-115)
ResolveFormulas(h) ==
  /\ turn = 0
  /\ hs[h].pc = "formulas"
  /\ LET g == EnterStage([hs[h] EXCEPT
                            !.all_formulas = getFormulasFromRange(sheet, hs[h].usedRange),
                            !.i = 0, !.rects = EmptyDict, !.styles = EmptyDict])
     IN /\ hs' = [MarkCut(hs, h) EXCEPT ![h] = g]
        /\ turn' = TurnAfter(h, g)
  /\ UNCHANGED <<pane, sheet, fmt, fill, debug, use_styles, fixes, canRestore, onclick, started,
                 faults, probe>>

\* App.colorRange after its sync (App.tsx 570-598): the old colour is read and
\* the new one queued, unless it is the old one
ColorResolved(g, fl) ==
  LET color == debug_colors[g.i + 1]
      oldColor == RangeFill(fl, Arm(g))
  IN [g EXCEPT
        !.old_colors = Append(@, [color |-> oldColor, range |-> Arm(g)]),
        !.pending = IF color = oldColor THEN <<>>
                    ELSE <<[range |-> Arm(g), color |-> color]>>]

ResolveColor(h) ==
  /\ turn = 0
  /\ hs[h].pc = "color"
  /\ LET fl == ApplyPending(fill, hs[h].pending)
         g == EnterStyles(ColorResolved(hs[h], fl))
     IN /\ fill' = fl
        /\ hs' = [MarkCut(hs, h) EXCEPT ![h] = g]
        /\ turn' = TurnAfter(h, g)
  /\ UNCHANGED <<pane, sheet, fmt, debug, use_styles, fixes, canRestore, onclick, started, faults, probe>>

\* the sync of colorRange is rejected: the error is caught and logged, the
\* old colour stays "" (App.tsx 579-597)
RejectColor(h) ==
  /\ turn = 0
  /\ faults < MaxFaults
  /\ faults' = faults + 1
  /\ hs[h].pc = "color"
  /\ LET g == EnterStyles([hs[h] EXCEPT
                             !.old_colors = Append(@, [color |-> "", range |-> Arm(hs[h])]),
                             !.pending = <<>>])
     IN /\ hs' = [MarkCut(hs, h) EXCEPT ![h] = g]
        /\ turn' = TurnAfter(h, g)
  /\ UNCHANGED <<pane, sheet, fmt, fill, debug, use_styles, fixes, canRestore, onclick, started, probe>>

\* the style hashes of every cell of range r (App.tsx 523-561)
RECURSIVE FormattingOf(_, _)
FormattingOf(fm, cells) ==
  IF cells = <<>> THEN EmptyDict
  ELSE <<[key |-> Head(cells), val |-> fm[Head(cells)]]>> \o FormattingOf(fm, Tail(cells))

getFormattingFromRange(fm, r) == FormattingOf(fm, RectExpand(RangeRectangle(r)))

\* getFormattingFromRange resolves: the arm's formatting has arrived (its
\* syncs, three per cell, are one step here)
ResolveStyle(h) ==
  /\ turn = 0
  /\ hs[h].pc = "style"
  /\ LET g == [hs[h] EXCEPT !.ss = getFormattingFromRange(fmt, Arm(hs[h])),
                            !.pending = <<>>, !.pc = "compute"]
     IN /\ fill' = ApplyPending(fill, hs[h].pending)
        /\ hs' = [MarkCut(hs, h) EXCEPT ![h] = g]
        /\ turn' = TurnAfter(h, g)
  /\ UNCHANGED <<pane, sheet, fmt, debug, use_styles, fixes, canRestore, onclick, started, faults, probe>>

\* an awaited sync outside any try block is rejected: the generator (if it
\* runs) throws, next() rejects, and the handler ends without a state update
Reject(h) ==
  /\ turn = 0
  /\ faults < MaxFaults
  /\ faults' = faults + 1
  /\ hs[h].pc \in {"usedRange", "load", "formulas", "style"}
  /\ hs' = [MarkCut(hs, h) EXCEPT
              ![h] = [hs[h] EXCEPT !.pc = "failed", !.rejected = TRUE,
                                   !.failedAt = IF hs[h].pc = "style" THEN hs[h].i + 1 ELSE 0]]
  /\ UNCHANGED <<pane, sheet, fmt, fill, debug, use_styles, fixes, canRestore, onclick, turn,
                 started, probe>>

\* a variant that keeps the styles of the current arm only
MergedStylesOnlyNew(styles, ss) == ss

\* the styles read so far (App.tsx 131)
MergedStyles(styles, ss) == DictMerge(styles, ss)

\* the rest of a stage (App.tsx 121-173), without its awaits
Computed(g) ==
  LET styles == MergedStyles(g.styles, g.ss)
      fs == ArmFormulas(g.all_formulas, Arm(g))
      rects == FoldArm(g.rects, fs)
      pfs4 == StageFixes(rects, styles, g.addr)
  IN IF RectfThrows(pfs4, g.all_formulas)
     THEN [g EXCEPT !.pc = "failed", !.failedAt = g.i + 1, !.fs = fs,
                    !.styles = styles, !.rects = rects]
     ELSE [g EXCEPT !.pc = "yield", !.fs = fs, !.styles = styles, !.rects = rects,
                    !.proposed_fixes = HeuristicFixes(pfs4, g.all_formulas)]

\* a variant whose loop stops one arm early
ResumedOneShort(g, v) ==
  LET g1 == [g EXCEPT
               !.yields = Append(@, [value |-> v, pfs |-> g.proposed_fixes,
                                     arm |-> Arm(g), fs |-> g.fs, rects |-> g.rects]),
               !.found_fixes = FoundAfter(@, v)]
  IN IF g.i + 2 < Len(Steps(findFatCross(g.usedRange, g.addr)))
     THEN EnterStage([g1 EXCEPT !.i = g.i + 1, !.proposed_fixes = <<>>])
     ELSE [g1 EXCEPT !.i = g.i + 1, !.pc = "return"]

\* the handler takes the yielded value and calls next(): the generator goes
\* on to the next stage, or leaves the loop (App.tsx 787-828, 115, 188)
Resumed(g, v) ==
  LET g1 == [g EXCEPT
               !.yields = Append(@, [value |-> v, pfs |-> g.proposed_fixes,
                                     arm |-> Arm(g), fs |-> g.fs, rects |-> g.rects]),
               !.found_fixes = FoundAfter(@, v)]
  IN IF g.i + 1 < Len(Steps(findFatCross(g.usedRange, g.addr)))
     THEN EnterStage([g1 EXCEPT !.i = g.i + 1, !.proposed_fixes = <<>>])
     ELSE [g1 EXCEPT !.i = g.i + 1, !.pc = "return"]

\* a stage is computed and its result yielded to the handler
Yield(h) ==
  /\ turn = h
  /\ hs[h].pc = "compute"
  /\ \E c \in {Computed(hs[h])} :
       \E v \in {StageYield(c.i, Len(Steps(findFatCross(c.usedRange, c.addr))),
                            c.proposed_fixes)} :
          \E g \in {IF c.pc = "failed" THEN c ELSE Resumed(c, v)} :
             /\ hs' = [MarkCut(hs, h) EXCEPT ![h] = g]
             /\ turn' = TurnAfter(h, g)
             /\ onclick' = IF c.pc # "failed" /\ v.type # "no" /\ debug THEN h ELSE onclick
  /\ UNCHANGED <<pane, sheet, fmt, fill, debug, use_styles, fixes, canRestore, started, faults, probe>>

\* the generator returns, the handler leaves its loop and updates the UI
\* state; Excel.run ends with a last sync (App.tsx 189-195, 830-846)
Return(h) ==
  /\ turn = h
  /\ hs[h].pc = "return"
  /\ hs' = [MarkCut(hs, h) EXCEPT
              ![h] = [hs[h] EXCEPT !.pc = "done",
                                   !.ret = <<FinalReturn(hs[h].proposed_fixes)>>,
                                   !.setStates = @ + 1,
                                   !.published = <<hs[h].found_fixes>>,
                                   !.pending = <<>>]]
  /\ fixes' = hs[h].found_fixes
  /\ canRestore' = (debug /\ onclick # 0)
  /\ fill' = ApplyPending(fill, hs[h].pending)
  /\ turn' = 0
  /\ UNCHANGED <<pane, sheet, fmt, debug, use_styles, onclick, started, faults, probe>>

\* The React component: its state and the updates setState has queued.
\* Inside a React event handler setState only queues the update (batched);
\* called from elsewhere it may apply the update at once.
Component(dbg, sty, batched) ==
  [state |-> [debug |-> dbg, use_styles |-> sty], pending |-> <<>>, batched |-> batched]

\* the queued updates applied in order, when the event handler has returned
RECURSIVE FlushState(_)
FlushState(c) ==
  IF c.pending = <<>> THEN c
  ELSE FlushState([c EXCEPT !.state = [f \in DOMAIN c.state |->
                                          IF f = Head(c.pending).field
                                          THEN Head(c.pending).value ELSE c.state[f]],
                            !.pending = Tail(c.pending)])

\* this.setState({field: value})
SetState(c, field, value) ==
  LET queued == [c EXCEPT !.pending = Append(@, [field |-> field, value |-> value])]
  IN IF c.batched THEN queued ELSE FlushState(queued)

\* App.toggleDebugState (App.tsx 341-345): the component afterwards and the
\* value returned
toggleDebugState(c) ==
  LET oldState == c.state.debug
      c1 == SetState(c, "debug", ~oldState)
  IN [comp |-> c1, returned |-> c1.state.debug]

\* App.toggleStyleState (App.tsx 351-355)
toggleStyleState(c) ==
  LET oldState == c.state.use_styles
      c1 == SetState(c, "use_styles", ~oldState)
  IN [comp |-> c1, returned |-> c1.state.use_styles]

\* the check box's onChange (App.tsx 908): a React event handler that calls
\* App.toggleStyleState
ToggleStyleState ==
  /\ turn = 0
  /\ use_styles' =
        FlushState(toggleStyleState(Component(debug, use_styles, TRUE)).comp).state.use_styles
  /\ hs' = MarkCut(hs, 0)
  /\ UNCHANGED <<pane, sheet, fmt, fill, debug, fixes, canRestore, onclick, turn, started, faults, probe>>

\* the debug check box's onChange (App.tsx 902) calls App.toggleDebugState;
\* the restore button is rendered anew, or removed, with the flag (App.tsx
\* 874-878)
ToggleDebugState ==
  /\ turn = 0
  /\ debug' = FlushState(toggleDebugState(Component(debug, use_styles, TRUE)).comp).state.debug
  /\ onclick' = 0
  /\ hs' = MarkCut(hs, 0)
  /\ UNCHANGED <<pane, sheet, fmt, fill, use_styles, fixes, canRestore, turn, started, faults, probe>>

\* One change event.  The task pane renders the style check box only (the
\* debug one is commented out, App.tsx 900-905); it is set before the event.
\* App.fullAnalysisOnCellChange (App.tsx 600-659): the whole used range
\* analysed at once; styles are always read
fullAnalysisOnCellChange(sh, fm, one) ==
  IF ~one THEN [failed |-> FALSE, value |-> <<>>]
  ELSE LET ur == HostUsedRange(sh)
           ur_formulas == getFormulasFromRange(sh, ur)
           ur_styles == getFormattingFromRange(fm, ur)
           rects == identify_groups(fingerprints(relativeFormulaRefs(ur_formulas)))
           pfs == generate_proposed_fixes(rects)
           pfs2 == adjustProposedFixesByStyleHash(
                     filterFixesByUserThreshold(pfs, ReportingThreshold), ur_styles)
       IN IF RectfThrows(pfs2, ur_formulas)
          THEN [failed |-> TRUE, value |-> <<>>]
          ELSE [failed |-> FALSE, value |-> HeuristicFixes(pfs2, ur_formulas)]

\* a change is analysed with the full analysis in place of the staged one
\* (App.tsx 775-777)
FullAnalysis(one) ==
  /\ started = 0
  /\ probe = NoProbe
  /\ pane = InitialPane
  /\ probe' = [fn |-> "fullAnalysisOnCellChange", arg |-> one,
               out |-> fullAnalysisOnCellChange(sheet, fmt, one), done |-> TRUE]
  /\ UNCHANGED <<pane, sheet, fmt, fill, debug, use_styles, fixes, canRestore, onclick, hs, turn,
                 started, faults>>

Next ==
  \/ \E h \in Handlers, a \in Cells, one \in BOOLEAN :
        started = 0 /\ probe = NoProbe /\ Start(h, a, one)
  \/ \E one \in BOOLEAN : FullAnalysis(one)
  \/ \E h \in Handlers : ResolveUsedRange(h)
  \/ \E h \in Handlers : ResolveLoad(h)
  \/ \E h \in Handlers : ResolveFormulas(h)
  \/ \E h \in Handlers : ResolveStyle(h)
  \/ \E h \in Handlers : Reject(h)
  \/ \E h \in Handlers : Yield(h)
  \/ \E h \in Handlers : Return(h)
  \/ started = 0 /\ ToggleStyleState

Spec == Init /\ [][Next]_vars

(***************************************************************************)
(* Overlapping change events: the host dispatches an event while earlier   *)
(* invocations still await host calls, and settles the calls of different  *)
(* invocations in any order.  The style check box may be clicked at any    *)
(* idle moment.                                                            *)
(***************************************************************************)
\* the sheet of the overlapping runs: A1 refers to the cell below, every
\* other cell to its right neighbour
OverlapBlock == Rect(Vec(1, 1, 0), Vec(1, 1, 0))

\* the cells the overlapping events are about: A2, below the block, and B2
OverlapTargets == {Vec(1, 2, 0), Vec(2, 2, 0)}

InitOverlap ==
  /\ sheet = SheetWith(OverlapBlock, "fB")
  /\ fmt = StyleWith(OverlapBlock, "s1")
  /\ fill = [c \in Cells |-> NoFill]
  /\ debug = FALSE
  /\ use_styles = FALSE
  /\ fixes = <<>>
  /\ canRestore = FALSE
  /\ onclick = 0
  /\ hs = [h \in Handlers |-> IdleHandler]
  /\ turn = 0
  /\ started = 0
  /\ faults = 0
  /\ probe = NoProbe
  /\ pane = InitialPane

NextOverlap ==
  \/ \E h \in Handlers, a \in OverlapTargets : Start(h, a, TRUE)
  \/ \E h \in Handlers : ResolveUsedRange(h)
  \/ \E h \in Handlers : ResolveLoad(h)
  \/ \E h \in Handlers : ResolveFormulas(h)
  \/ \E h \in Handlers : ResolveStyle(h)
  \/ \E h \in Handlers : Yield(h)
  \/ \E h \in Handlers : Return(h)
  \/ ToggleStyleState

SpecOverlap == InitOverlap /\ [][NextOverlap]_vars

(***************************************************************************)
(* One change event on a sheet with a gap: formulas of two shapes and one  *)
(* cell that holds a plain number.  Styles and debug colouring stay off.   *)
(***************************************************************************)
\* the sheet with block b referring below and cell c holding a number
SheetWithGap(b, c) == [d \in Cells |-> IF d = c THEN "num" ELSE SheetWith(b, "fB")[d]]

InitGaps ==
  /\ \E b \in Blocks, c \in Cells : sheet = SheetWithGap(b, c)
  /\ fmt = [c \in Cells |-> "s1"]
  /\ fill = [c \in Cells |-> NoFill]
  /\ debug = FALSE
  /\ use_styles = FALSE
  /\ fixes = <<>>
  /\ canRestore = FALSE
  /\ onclick = 0
  /\ hs = [h \in Handlers |-> IdleHandler]
  /\ turn = 0
  /\ started = 0
  /\ faults = 0
  /\ probe = NoProbe
  /\ pane = InitialPane

NextGaps ==
  \/ \E h \in Handlers, a \in Cells : started = 0 /\ Start(h, a, TRUE)
  \/ \E h \in Handlers : ResolveUsedRange(h)
  \/ \E h \in Handlers : ResolveLoad(h)
  \/ \E h \in Handlers : ResolveFormulas(h)
  \/ \E h \in Handlers : Yield(h)
  \/ \E h \in Handlers : Return(h)

SpecGaps == InitGaps /\ [][NextGaps]_vars

(***************************************************************************)
(* Debug colouring: the debug flag is set, one change event is analysed    *)
(* with its arms coloured, and the restore button is clicked.              *)
(***************************************************************************)
\* what a sync does with the queued fill write of its context.  A write of
\* the empty colour code (the colour read from a range of mixed fills) is
\* either taken for "no fill" by the host or rejected with the sync.
HostWrite(fl, pending, lenient) ==
  IF pending = <<>> THEN [ok |-> TRUE, fill |-> fl]
  ELSE IF pending[1].color = ""
       THEN IF lenient
            THEN [ok |-> TRUE,
                  fill |-> ApplyPending(fl, <<[range |-> pending[1].range, color |-> NoFill]>>)]
            ELSE [ok |-> FALSE, fill |-> fl]
  ELSE [ok |-> TRUE, fill |-> ApplyPending(fl, pending)]

\* App.colorRange (App.tsx 570-598) in a context with a queued write: the
\* sheet's fills after its sync, the write it queues, the old colour it
\* returns; a rejected sync is caught and nothing is written
colorRange(fl, pending, r, color, lenient) ==
  LET w == HostWrite(fl, pending, lenient)
      oldColor == RangeFill(w.fill, r)
  IN IF ~w.ok
     THEN [fill |-> w.fill, pending |-> <<>>, old |-> [color |-> "", range |-> r]]
     ELSE [fill |-> w.fill,
           pending |-> IF color = oldColor THEN <<>> ELSE <<[range |-> r, color |-> color]>>,
           old |-> [color |-> oldColor, range |-> r]]

\* the loop of App.restoreColors (App.tsx 672-675) and the last sync of its
\* Excel.run: the fills of the sheet afterwards
RECURSIVE RestoredFills(_, _, _, _)
RestoredFills(fl, pending, oldColors, lenient) ==
  IF oldColors = <<>> THEN HostWrite(fl, pending, lenient).fill
  ELSE LET c == colorRange(fl, pending, Head(oldColors).range, Head(oldColors).color, lenient)
       IN RestoredFills(c.fill, c.pending, Tail(oldColors), lenient)

\* the restore button is clicked (App.tsx 666-686): the handler bound to it
\* holds the old-colour list of the invocation that set it
RestoreColors(lenient) ==
  /\ turn = 0
  /\ Quiet
  /\ debug /\ canRestore /\ onclick # 0
  /\ probe = NoProbe
  /\ pane = InitialPane
  /\ fill' = RestoredFills(fill, <<>>, hs[onclick].old_colors, lenient)
  /\ onclick' = 0
  /\ canRestore' = FALSE
  /\ probe' = [fn |-> "restoreColors", arg |-> hs[onclick].old_colors,
               out |-> <<>>, done |-> TRUE]
  /\ UNCHANGED <<pane, sheet, fmt, debug, use_styles, fixes, hs, turn, started, faults>>

InitDebug ==
  /\ \E b \in Blocks, k \in {"fB", "empty"} : sheet = SheetWith(b, k)
  /\ fmt = [c \in Cells |-> "s1"]
  /\ fill = [c \in Cells |-> NoFill]
  /\ debug = FALSE
  /\ use_styles = FALSE
  /\ fixes = <<>>
  /\ canRestore = FALSE
  /\ onclick = 0
  /\ hs = [h \in Handlers |-> IdleHandler]
  /\ turn = 0
  /\ started = 0
  /\ faults = 0
  /\ probe = NoProbe
  /\ pane = InitialPane

NextDebug ==
  \/ started = 0 /\ ToggleDebugState
  \/ \E h \in Handlers, a \in Cells : started = 0 /\ Start(h, a, TRUE)
  \/ \E h \in Handlers : ResolveUsedRange(h)
  \/ \E h \in Handlers : ResolveLoad(h)
  \/ \E h \in Handlers : ResolveFormulas(h)
  \/ \E h \in Handlers : ResolveColor(h)
  \/ \E h \in Handlers : RejectColor(h)
  \/ \E h \in Handlers : Yield(h)
  \/ \E h \in Handlers : Return(h)
  \/ \E lenient \in BOOLEAN : RestoreColors(lenient)

SpecDebug == InitDebug /\ [][NextDebug]_vars

(***************************************************************************)
(* App.onSelectionChange (App.tsx 692-750): the listener on the task pane's *)
(* formula input.  A listener is the closure made for one selection event, *)
(* named by the event's number and the address it holds.  The batch        *)
(* function of Excel.run runs up to its context.sync in one piece.         *)
(***************************************************************************)
\* the addresses selected
SelectionTargets == OverlapTargets

\* a variant that leaves the old listener on the input field
SwapListenerKeepsOld(p, new) ==
  [p EXCEPT !.listeners = @ \cup {new}, !.inputListener = new]

\* App.tsx 707-715: the current listener is removed from the input field,
\* the new one stored in the App and added to the field
SwapListener(p, new) ==
  [p EXCEPT !.listeners = (@ \ {p.inputListener}) \cup {new}, !.inputListener = new]

\* the host dispatches a selection-change event for the single cell a:
\* Excel.run is called (App.tsx 693-694)
SelectCell(a) ==
  /\ pane.selected < MaxSelections
  /\ pane' = [pane EXCEPT !.selected = @ + 1,
                            !.sel[pane.selected + 1] = [pc |-> "run", single |-> TRUE, addr |-> a]]
  /\ UNCHANGED <<sheet, fmt, fill, debug, use_styles, fixes, canRestore, onclick, hs, turn,
                 started, faults, probe>>

\* a selection-change event for a range of several cells: only the UI state
\* is updated (App.tsx 744-749)
SelectRange ==
  /\ pane.selected < MaxSelections
  /\ pane' = [pane EXCEPT !.selected = @ + 1,
                            !.sel[pane.selected + 1] = [pc |-> "done", single |-> FALSE,
                                                        addr |-> Vec(0, 0, 0)],
                            !.changeat = "range"]
  /\ UNCHANGED <<sheet, fmt, fill, debug, use_styles, fixes, canRestore, onclick, hs, turn,
                 started, faults, probe>>

\* the batch function of invocation n runs up to its await (App.tsx 694-730)
RunBatch(n) ==
  /\ pane.sel[n].pc = "run"
  /\ pane' = [SwapListener(pane, [id |-> n, addr |-> pane.sel[n].addr]) EXCEPT
                 !.sel[n].pc = "sync", !.processed = n]
  /\ UNCHANGED <<sheet, fmt, fill, debug, use_styles, fixes, canRestore, onclick, hs, turn,
                 started, faults, probe>>

\* the sync of invocation n resolves: the input shows the cell's formula and
\* the UI state is updated (App.tsx 730-742)
SelectionSynced(n) ==
  /\ pane.sel[n].pc = "sync"
  /\ pane' = [pane EXCEPT !.sel[n].pc = "done", !.changeat = pane.sel[n].addr]
  /\ UNCHANGED <<sheet, fmt, fill, debug, use_styles, fixes, canRestore, onclick, hs, turn,
                 started, faults, probe>>

NextSelect ==
  \/ \E a \in SelectionTargets : SelectCell(a)
  \/ SelectRange
  \/ \E n \in 1..MaxSelections : RunBatch(n)
  \/ \E n \in 1..MaxSelections : SelectionSynced(n)

SpecSelect == InitOverlap /\ [][NextSelect]_vars

(***************************************************************************)
(* The claims about the staged analysis.                                   *)
(***************************************************************************)
\* the conclusive result for a fix list
Conclusive(pfs) == IF pfs = <<>> THEN No ELSE Definitely(pfs)

RECURSIVE FoldedUpTo(_, _, _)
FoldedUpTo(all_formulas, order, k) ==
  IF k = 0 THEN EmptyDict
  ELSE FoldArm(FoldedUpTo(all_formulas, order, k - 1), ArmFormulas(all_formulas, order[k]))

\* C2: the arms are processed in the order up, left, down, right: the k-th
\* result yielded belongs to the k-th arm of that order and is computed on
\* the rectangles of exactly the first k arms; no arm is skipped or repeated.
C2_ArmOrder ==
  \A h \in Handlers :
     LET g == hs[h]
         fc == findFatCross(g.usedRange, g.addr)
         order == <<fc.up, fc.left, fc.down, fc.right>>
     IN /\ Len(g.yields) <= 4
        /\ \A k \in 1..Len(g.yields) :
             /\ g.yields[k].arm = order[k]
             /\ g.yields[k].rects = FoldedUpTo(g.all_formulas, order, k)

\* a finished run whose up and left arms differ and whose second result
\* holds more than its first
C2_Witness ==
  \E h \in Handlers :
     /\ Len(hs[h].yields) = 4
     /\ hs[h].yields[1].arm # hs[h].yields[2].arm
     /\ hs[h].yields[1].rects # hs[h].yields[2].rects

\* C4: every value the generator yields is No or Possibly; Definitely is
\* only ever the final return value.
C4_YieldsNeverDefinitely ==
  \A h \in Handlers : \A k \in 1..Len(hs[h].yields) :
     hs[h].yields[k].value.type \in {"no", "possibly"}

\* C5: every fix carried by a yielded or returned result includes the target
\* cell: one of its two rectangles contains the target address.
C5_FixesIncludeTarget ==
  \A h \in Handlers :
     LET g == hs[h]
         results == {g.yields[k].value : k \in 1..Len(g.yields)}
                      \cup {g.ret[k] : k \in 1..Len(g.ret)}
     IN \A r \in results : \A n \in 1..Len(r.value) : IncludesCellAt(r.value[n], g.addr)

\* a result that carries a fix one of whose rectangles lies off the target
C5_Witness ==
  \E h \in Handlers : \E k \in 1..Len(hs[h].yields) :
     LET v == hs[h].yields[k].value.value
     IN /\ Len(v) > 0
        /\ ~ (RectContains(v[1].rect1, hs[h].addr) /\ RectContains(v[1].rect2, hs[h].addr))

\* the run of handler h was not disturbed: no awaited call was rejected and
\* the target lies inside the bounding range
Undisturbed(g) == g.single /\ ~g.rejected /\ ~FatCrossFails(g.usedRange, g.addr)

Rank(g) ==
  CASE g.pc = "idle" -> 50
    [] g.pc = "usedRange" -> 49
    [] g.pc = "load" -> 48
    [] g.pc = "formulas" -> 47
    [] g.pc = "color" -> 46 - 4 * g.i
    [] g.pc = "style" -> 45 - 4 * g.i
    [] g.pc = "compute" -> 44 - 4 * g.i
    [] g.pc = "return" -> 1
    [] OTHER -> 0

\* an invocation's record, but for the mark other handlers leave on it
Position(g) == [g EXCEPT !.cut = FALSE]

\* the guard of the invocation's next step holds: the host call it awaits
\* can be settled, or it holds the JS thread
CanStep(h) == IF Waiting(hs[h]) THEN turn = 0 ELSE turn = h

HasPair(pfs, f) == \E n \in 1..Len(pfs) : PairEqual(pfs[n], f)

\* every rectangle of an accumulated state
AllRects(groups) ==
  UNION {{groups[i].val[j] : j \in 1..Len(groups[i].val)} : i \in 1..Len(groups)}

\* C6 (as stated): the fix list yielded after stage 1 is a subset of the fix
\* list of the conclusive result of all four stages.
C6_Stage1Subset ==
  \A h \in Handlers :
     Len(hs[h].yields) = 4
        => \A n \in 1..Len(hs[h].yields[1].pfs) :
              HasPair(hs[h].yields[4].pfs, hs[h].yields[1].pfs[n])

\* C6 (amended): every fix yielded after stage 1 whose two rectangles are
\* still rectangles of the accumulated state after stage 4 (no later arm
\* extended them) is a fix of the conclusive result (the same two
\* rectangles, in either order), with the same score.
C6_UnchangedFixesSurvive ==
  \A h \in Handlers :
     Len(hs[h].yields) = 4
        => \A n \in 1..Len(hs[h].yields[1].pfs) :
              LET f == hs[h].yields[1].pfs[n]
              IN ({f.rect1, f.rect2} \subseteq AllRects(hs[h].yields[4].rects))
                    => \E m \in 1..Len(hs[h].yields[4].pfs) :
                          /\ PairEqual(hs[h].yields[4].pfs[m], f)
                          /\ hs[h].yields[4].pfs[m].score = f.score

\* a full run whose stage-1 fix kept both rectangles, with styles read and
\* the fix rescored
C6_Witness ==
  \E h \in Handlers :
     /\ Len(hs[h].yields) = 4
     /\ hs[h].use_styles
     /\ \E n \in 1..Len(hs[h].yields[1].pfs) :
           LET f == hs[h].yields[1].pfs[n]
           IN /\ {f.rect1, f.rect2} \subseteq AllRects(hs[h].yields[4].rects)
              /\ f.score < ReportingThreshold

\* C7: when a new analysis starts before a prior one has finished, the
\* stale one is discarded: once no invocation is in flight, the fixes in the
\* App's state are those of the most recently started analysis.
C7_LatestWins ==
  (Quiet /\ started > 0 /\ hs[started].pc = "done")
     => fixes = hs[started].found_fixes

\* C8 (as stated): the analysis suspends only between stages: no other
\* handler runs between the beginning of a stage and its yield, whatever
\* the debug-colouring and style settings.
C8_NeverCutMidStage == \A h \in Handlers : ~hs[h].cut

\* C8 (amended): with debug colouring and styles both off the analysis
\* suspends only between stages: no other handler runs between the
\* beginning of a stage and its yield.  (With either on, a stage awaits host
\* calls and other handlers may run in its middle.)
C8_NoCutWhenPlain ==
  \A h \in Handlers : hs[h].cut => (hs[h].use_colors \/ hs[h].use_styles)

\* a plain run went through its four stages while an earlier invocation was
\* still awaiting the host, and was not cut
C8_Witness ==
  \E h \in Handlers, k \in Handlers :
     /\ k < h
     /\ Waiting(hs[k])
     /\ ~hs[h].use_colors /\ ~hs[h].use_styles
     /\ hs[h].pc = "done" /\ Len(hs[h].yields) = 4
     /\ ~hs[h].cut

\* C9: staged results are fail-soft: when processing arm k (k >= 2) raises
\* an error, the handler still publishes the fix list of the last successful
\* stage.
C9_FailSoft ==
  \A h \in Handlers :
     (hs[h].pc = "failed" /\ hs[h].failedAt >= 2)
        => /\ hs[h].setStates = 1
           /\ hs[h].published = <<hs[h].found_fixes>>

Covered(groups, fp) ==
  IF DictContains(groups, fp)
  THEN UNION {RectCells(DictGet(groups, fp)[j]) : j \in 1..Len(DictGet(groups, fp))}
  ELSE {}

\* the fingerprint of the formula at cell c
CellFingerprint(all_formulas, c) ==
  Fingerprint(RelativeRefs(DictGet(all_formulas, c), c))

\* the formula cells with fingerprint fp inside the first k arms of an order
ArmCells(all_formulas, order, k, fp) ==
  {c \in DictKeys(all_formulas) :
     /\ \E n \in 1..k : RangeContains(order[n], c)
     /\ CellFingerprint(all_formulas, c) = fp}

\* C11: accumulation across stages is additive: for every fingerprint, the
\* cells covered by the accumulated rectangles after stage k+1 include those
\* covered after stage k, and after every stage they are exactly the formula
\* cells with that fingerprint in the arms processed so far.
C11_AccumulationAdditive ==
  \A h \in Handlers :
     LET g == hs[h]
         order == Steps(findFatCross(g.usedRange, g.addr))
         fps == {CellFingerprint(g.all_formulas, c) : c \in DictKeys(g.all_formulas)}
     IN \A k \in 1..Len(g.yields) :
           /\ DictKeys(g.yields[k].rects) \subseteq fps
           /\ \A fp \in fps :
                /\ Covered(g.yields[k].rects, fp) = ArmCells(g.all_formulas, order, k, fp)
                /\ k > 1 => Covered(g.yields[k - 1].rects, fp)
                               \subseteq Covered(g.yields[k].rects, fp)

\* a full run over two fingerprints in which a later arm adds cells to what
\* an earlier arm had covered
C11_Witness ==
  \E h \in Handlers :
     /\ Len(hs[h].yields) = 4
     /\ Len(hs[h].yields[4].rects) >= 2
     /\ \E k \in 2..4 : \E i \in 1..Len(hs[h].yields[k - 1].rects) :
           LET fp == hs[h].yields[k - 1].rects[i].key
           IN /\ Covered(hs[h].yields[k - 1].rects, fp) # {}
              /\ Covered(hs[h].yields[k - 1].rects, fp) # Covered(hs[h].yields[k].rects, fp)

(***************************************************************************)
(* The engine's pure steps, each applied once to an argument drawn from a  *)
(* bounded set.                                                            *)
(***************************************************************************)
PureW == 2
PureH == 2
\* the longest rectangle list of a group
MaxRects == 3
\* the longest fix list
MaxFixes == 3
\* the largest reporting threshold tried
MaxThreshold == 3
\* the side of the region a 3x3 block of formulas is placed in
RegionSide == 3

PureCells == {Vec(x, y, 0) : x \in 1..PureW, y \in 1..PureH}

PureRects ==
  {Rect(p[1], p[2]) :
     p \in {q \in PureCells \X PureCells : q[1][1] <= q[2][1] /\ q[1][2] <= q[2][2]}}

\* an injective rank of the rectangles
RectRank(r) ==
  ((r.upperleft[1] * (PureH + 1) + r.upperleft[2]) * (PureW + 1) + r.bottomright[1])
     * (PureH + 1) + r.bottomright[2]

\* a rectangle list in nondecreasing rank: overlapping and repeated
\* rectangles included
Ranked(l) == \A i \in 1..(Len(l) - 1) : RectRank(l[i]) <= RectRank(l[i + 1])

\* the fingerprints of a formula that refers to its right neighbour and of
\* one that refers to the cell below
FpRight == Fingerprint(<<Vec(0, -1, 0)>>)

FpBelow == Fingerprint(<<Vec(-1, 0, 0)>>)

\* a merged dictionary as mergeRectangleDictionaries leaves it: the list in
\* rank order under one fingerprint, in the opposite order under another
GroupsOf(l) == <<[key |-> FpRight, val |-> l], [key |-> FpBelow, val |-> Reverse(l)]>>

ProbeOf(f, x) == [fn |-> f, arg |-> x, out |-> <<>>, done |-> FALSE]

\* the fingerprints of a region: a cell holds no formula, or a formula of
\* one of two fingerprints
FpMaps == [PureCells -> {"none", "right", "below"}]

\* the address-to-fingerprint dictionary of such a region, rows outermost
FpDict(f) ==
  LET all == RectExpand(Rect(Vec(1, 1, 0), Vec(PureW, PureH, 0)))
      used(c) == f[c] # "none"
      cs == SelectSeq(all, used)
  IN [i \in 1..Len(cs) |->
        [key |-> cs[i], val |-> IF f[cs[i]] = "right" THEN FpRight ELSE FpBelow]]

\* formula texts: a constant, one reference, two references, a range
RefTexts ==
  {<<Ch("5")>>}
  \cup {<<Ref(r)>> : r \in PureCells}
  \cup {<<Ref(p[1]), Ch("+"), Ref(p[2])>> : p \in PureCells \X PureCells}
  \cup {<<Ch("SUM("), RangeRef(r.upperleft, r.bottomright), Ch(")")>> : r \in PureRects}

\* the dictionary of analysis.test.ts 6-8: =SUM(A1:A5) at (0,5,0)
SumScenario ==
  <<[key |-> Vec(0, 5, 0),
     val |-> <<Ch("="), Ch("SUM("), RangeRef(Vec(1, 1, 0), Vec(1, 5, 0)), Ch(")")>>]>>

\* formula dictionaries of one formula, or of one formula and a constant one
FormulaDicts ==
  {SumScenario}
  \cup {<<[key |-> a, val |-> t]>> : a \in PureCells, t \in RefTexts}
  \cup {<<[key |-> p[1], val |-> t], [key |-> p[2], val |-> <<Ch("5")>>]>> :
          p \in {q \in PureCells \X PureCells : q[1] # q[2]}, t \in RefTexts}

\* a sheet of one kind of content but for a block of another kind
PureSheet(b, k1, k2) == [c \in PureCells |-> IF RectContains(b, c) THEN k2 ELSE k1]

\* the range of a rectangle
RectRange(r) == Range(r.upperleft[1], r.upperleft[2], r.bottomright[1], r.bottomright[2])

\* the thresholds tried, in pairs of a lower and a higher one
ThresholdPairs == {u \in (0..MaxThreshold) \X (0..MaxThreshold) : u[1] <= u[2]}

\* fixes between the rectangles A1, B1 and A2:B2, some naming one pair in
\* either order or with different scores
FixPalette ==
  LET a == Rect(Vec(1, 1, 0), Vec(1, 1, 0))
      b == Rect(Vec(2, 1, 0), Vec(2, 1, 0))
      c == Rect(Vec(1, 2, 0), Vec(2, 2, 0))
  IN {ProposedFix(a, b, 1), ProposedFix(b, a, 1), ProposedFix(a, b, 3),
      ProposedFix(a, c, 2), ProposedFix(c, b, 2)}

\* the fix lists of up to n fixes
FixLists(n) == UNION {[1..k -> FixPalette] : k \in 0..n}

\* style dictionaries over the representative cells A1, B1 and A2: a cell
\* has one of two style hashes or no entry
StyleDicts ==
  {LET has(c) == f[c] # "none"
       cs == SelectSeq(<<Vec(1, 1, 0), Vec(2, 1, 0), Vec(1, 2, 0)>>, has)
   IN [i \in 1..Len(cs) |-> [key |-> cs[i], val |-> f[cs[i]]]] :
     f \in [{Vec(1, 1, 0), Vec(2, 1, 0), Vec(1, 2, 0)} -> {"none", "s1", "s2"}]}

\* where a 3x3 block may lie in the region
BlockOrigins == {Vec(x, y, 0) : x \in 1..(RegionSide - 2), y \in 1..(RegionSide - 2)}

\* the offsets of the cells of a 3x3 block
BlockOffsets == {Vec(x, y, 0) : x \in 0..2, y \in 0..2}

\* the address-to-fingerprint dictionary of the 3x3 block at origin o whose
\* cells have the fingerprints f gives them, rows outermost
BlockFpDict(o, f) ==
  LET cs == RectExpand(Rect(o, VecAdd(o, Vec(2, 2, 0))))
  IN [i \in 1..Len(cs) |->
        [key |-> cs[i], val |-> IF f[VecSub(cs[i], o)] = "right" THEN FpRight ELSE FpBelow]]

\* the groups of a region and the candidate fixes between them (App.tsx
\* 626-633)
GroupsAndFixes(fps) ==
  LET rects == identify_groups(fps)
  IN [rects |-> rects, pfs |-> generate_proposed_fixes(rects)]

InitPure ==
  /\ sheet = [c \in Cells |-> "fA"]
  /\ fmt = [c \in Cells |-> "s1"]
  /\ fill = [c \in Cells |-> NoFill]
  /\ debug = FALSE
  /\ use_styles = FALSE
  /\ fixes = <<>>
  /\ canRestore = FALSE
  /\ onclick = 0
  /\ hs = [h \in Handlers |-> IdleHandler]
  /\ turn = 0
  /\ started = 0
  /\ faults = 0
  /\ pane = InitialPane
  /\ \/ \E n \in 0..MaxRects : \E l \in [1..n -> PureRects] :
           Ranked(l) /\ probe = ProbeOf("mergeRectangles", GroupsOf(l))
     \/ \E l \in FixLists(MaxFixes) : probe = ProbeOf("filterDuplicateFixes", l)
     \/ \E l \in FixLists(MaxFixes), t \in ThresholdPairs :
           probe = ProbeOf("filterFixesByUserThreshold",
                           [fixes |-> l, t1 |-> t[1], t2 |-> t[2]])
     \/ \E l \in FixLists(MaxFixes), st \in StyleDicts :
           probe = ProbeOf("adjustProposedFixesByStyleHash", [fixes |-> l, styles |-> st])
     \/ \E b \in PureRects, k1 \in {"num", "fA"}, k2 \in ContentKinds, r \in PureRects :
           probe = ProbeOf("getFormulasFromRange",
                           [sh |-> PureSheet(b, k1, k2), r |-> RectRange(r)])
     \/ \E fs \in FormulaDicts : probe = ProbeOf("relativeFormulaRefs", fs)
     \/ \E f \in FpMaps : probe = ProbeOf("identify_groups", FpDict(f))
     \/ \E d \in BOOLEAN, u \in BOOLEAN, b \in BOOLEAN :
           probe = ProbeOf("toggleDebugState", Component(d, u, b))
     \/ \E d \in BOOLEAN, u \in BOOLEAN, b \in BOOLEAN :
           probe = ProbeOf("toggleStyleState", Component(d, u, b))
     \/ \E o \in BlockOrigins, f \in [BlockOffsets -> {"right", "below"}] :
           probe = ProbeOf("generate_proposed_fixes", BlockFpDict(o, f))

Applied(out) ==
  /\ ~probe.done
  /\ probe' = [probe EXCEPT !.out = out, !.done = TRUE]
  /\ UNCHANGED <<pane, sheet, fmt, fill, debug, use_styles, fixes, canRestore, onclick, hs, turn,
                 started, faults>>

\* App.tsx 144
ApplyMergeRectangles ==
  probe.fn = "mergeRectangles" /\ Applied(mergeRectangles(probe.arg))

\* App.tsx 140, 627
ApplyIdentifyGroups ==
  probe.fn = "identify_groups" /\ Applied(identify_groups(probe.arg))

\* App.tsx 134, analysis.test.ts 9
ApplyRelativeFormulaRefs ==
  probe.fn = "relativeFormulaRefs" /\ Applied(relativeFormulaRefs(probe.arg))

\* App.tsx 400-439
ApplyGetFormulasFromRange ==
  /\ probe.fn = "getFormulasFromRange"
  /\ Applied(getFormulasFromRange(probe.arg.sh, probe.arg.r))

\* App.tsx 150
ApplyFilterDuplicateFixes ==
  probe.fn = "filterDuplicateFixes" /\ Applied(filterDuplicateFixes(probe.arg))

\* App.tsx 156, 636: one list filtered under two thresholds
ApplyFilterFixesByUserThreshold ==
  /\ probe.fn = "filterFixesByUserThreshold"
  /\ Applied([lo |-> filterFixesByUserThreshold(probe.arg.fixes, probe.arg.t1),
              hi |-> filterFixesByUserThreshold(probe.arg.fixes, probe.arg.t2)])

\* App.tsx 159, 639
ApplyAdjustProposedFixesByStyleHash ==
  /\ probe.fn = "adjustProposedFixesByStyleHash"
  /\ Applied(adjustProposedFixesByStyleHash(probe.arg.fixes, probe.arg.styles))

\* App.tsx 626-633
ApplyGenerateProposedFixes ==
  probe.fn = "generate_proposed_fixes" /\ Applied(GroupsAndFixes(probe.arg))

\* App.tsx 341-345
ApplyToggleDebugState ==
  probe.fn = "toggleDebugState" /\ Applied(toggleDebugState(probe.arg))

\* App.tsx 351-355
ApplyToggleStyleState ==
  probe.fn = "toggleStyleState" /\ Applied(toggleStyleState(probe.arg))

NextPure ==
  \/ ApplyMergeRectangles
  \/ ApplyFilterDuplicateFixes
  \/ ApplyFilterFixesByUserThreshold
  \/ ApplyAdjustProposedFixesByStyleHash
  \/ ApplyGetFormulasFromRange
  \/ ApplyRelativeFormulaRefs
  \/ ApplyIdentifyGroups
  \/ ApplyGenerateProposedFixes
  \/ ApplyToggleDebugState
  \/ ApplyToggleStyleState

SpecPure == InitPure /\ [][NextPure]_vars

\* the step fn was applied
Did(fn) == probe.fn = fn /\ probe.done

\* C12: mergeRectangles is idempotent, and its result holds no two
\* rectangles under one fingerprint that are mergeable (adjacent along a
\* full edge, or overlapping, with a rectangular union).
C12_MergeFixedPoint ==
  Did("mergeRectangles") =>
     /\ mergeRectangles(probe.out) = probe.out
     /\ \A i \in 1..Len(probe.out) :
           \A m, n \in 1..Len(probe.out[i].val) :
              m < n => ~RectMergeable(probe.out[i].val[m], probe.out[i].val[n])

\* three rectangles of which the first two merge to a rectangle that then
\* merges with the third
C12_Witness ==
  /\ Did("mergeRectangles")
  /\ Len(probe.arg[1].val) = 3
  /\ ~RectMergeable(probe.arg[1].val[1], probe.arg[1].val[3])
  /\ ~RectMergeable(probe.arg[1].val[2], probe.arg[1].val[3])
  /\ Len(probe.out[1].val) = 1

\* the cells of a fingerprint dictionary that carry fingerprint fp
CellsOf(fps, fp) == {fps[j].key : j \in {n \in 1..Len(fps) : fps[n].val = fp}}

\* the strips one row or one column beyond each side of a rectangle
Extensions(r) ==
  LET x1 == r.upperleft[1]
      y1 == r.upperleft[2]
      x2 == r.bottomright[1]
      y2 == r.bottomright[2]
  IN {Rect(Vec(x1 - 1, y1, 0), Vec(x1 - 1, y2, 0)), Rect(Vec(x2 + 1, y1, 0), Vec(x2 + 1, y2, 0)),
      Rect(Vec(x1, y1 - 1, 0), Vec(x2, y1 - 1, 0)), Rect(Vec(x1, y2 + 1, 0), Vec(x2, y2 + 1, 0))}

\* every cell of every rectangle has the rectangle's fingerprint, and every
\* cell of the input lies in a rectangle of its fingerprint
GroupsSoundAndComplete(fps, groups) ==
  /\ \A i \in 1..Len(groups) :
        Covered(groups, groups[i].key) = CellsOf(fps, groups[i].key)
  /\ \A j \in 1..Len(fps) : DictContains(groups, fps[j].val)

OneWide(fps) ==
  \/ \A i, j \in 1..Len(fps) : fps[i].key[1] = fps[j].key[1]
  \/ \A i, j \in 1..Len(fps) : fps[i].key[2] = fps[j].key[2]

C14_SumScenario ==
  (Did("relativeFormulaRefs") /\ probe.arg = SumScenario) =>
     probe.out = <<[key |-> Vec(0, 5, 0),
                    val |-> <<Vec(0, -1, 0), Vec(0, -2, 0), Vec(0, -3, 0),
                              Vec(0, -4, 0), Vec(0, -5, 0)>>]>>

\* the extractor was applied to the dictionary of the test
C14_Witness == Did("relativeFormulaRefs") /\ probe.arg = SumScenario

\* the cells a formula text refers to, as 1-based addresses, in the order
\* the extractor reports them
RECURSIVE TextCells(_)
TextCells(text) ==
  IF text = <<>> THEN <<>> ELSE TokenCells(Head(text)) \o TextCells(Tail(text))

MarkedCells(x) ==
  {c \in RectCells(RangeRectangle(x.r)) :
     LET raw == HostFormulaText(c, x.sh[c]) IN Len(raw) > 0 /\ IsFormulaMarker(raw[1])}

\* C16 (as stated): no value of the dictionary getFormulasFromRange returns
\* begins with '=', '+' or '-'; the dictionary has an entry for exactly the
\* cells whose raw text begins with one of these markers, keyed by the
\* 1-based address (range origin plus offset).
C16_NoLeadingMarker ==
  Did("getFormulasFromRange") =>
     /\ DictKeys(probe.out) = MarkedCells(probe.arg)
     /\ \A i \in 1..Len(probe.out) :
           probe.out[i].val = <<>> \/ ~IsFormulaMarker(probe.out[i].val[1])

\* C16 (amended): the dictionary has an entry for exactly the cells whose
\* raw text begins with '=', '+' or '-', keyed by the 1-based address; the
\* value is the raw text without its first character when that is '=', and
\* the whole raw text, sign included, when it is '+' or '-'.
C16_OnlyEqualsStripped ==
  Did("getFormulasFromRange") =>
     /\ DictKeys(probe.out) = MarkedCells(probe.arg)
     /\ \A i, j \in 1..Len(probe.out) : i # j => probe.out[i].key # probe.out[j].key
     /\ \A i \in 1..Len(probe.out) :
           LET raw == HostFormulaText(probe.out[i].key, probe.arg.sh[probe.out[i].key])
           IN probe.out[i].val = IF raw[1].ch = "=" THEN Tail(raw) ELSE raw

\* a range that does not start at A1, holding a formula entered with a
\* leading plus beside one entered with '='
C16_Witness ==
  /\ Did("getFormulasFromRange")
  /\ probe.arg.r.upperLeftRow > 1
  /\ \E i, j \in 1..Len(probe.out) :
        /\ probe.out[i].val[1] = Ch("+")
        /\ probe.out[j].val[1].kind = "ref"

\* the positions of a fix list that no earlier position is pair-equal to
FirstOccurrences(l) ==
  {i \in 1..Len(l) : \A j \in 1..(i - 1) : ~PairEqual(l[j], l[i])}

\* C17: filterDuplicateFixes returns a subsequence of its input without two
\* pair-equal fixes (equal as unordered pairs of rectangles): exactly the
\* first occurrence of every pair, in input order, so that every input fix
\* is pair-equal to a fix kept.
C17_FirstOccurrencesKept ==
  Did("filterDuplicateFixes") =>
     /\ \E idx \in [1..Len(probe.out) -> 1..Len(probe.arg)] :
           /\ \A k \in 1..Len(probe.out) : probe.out[k] = probe.arg[idx[k]]
           /\ \A k \in 1..(Len(probe.out) - 1) : idx[k] < idx[k + 1]
           /\ {idx[k] : k \in 1..Len(probe.out)} = FirstOccurrences(probe.arg)
     /\ \A m, n \in 1..Len(probe.out) : m # n => ~PairEqual(probe.out[m], probe.out[n])
     /\ \A i \in 1..Len(probe.arg) :
           \E k \in 1..Len(probe.out) : PairEqual(probe.out[k], probe.arg[i])

\* a list whose second fix names the rectangles of the first in the
\* opposite order and whose third is another pair
C17_Witness ==
  /\ Did("filterDuplicateFixes")
  /\ Len(probe.arg) = 3
  /\ probe.arg[1] # probe.arg[2]
  /\ probe.arg[1].rect1 = probe.arg[2].rect2
  /\ PairEqual(probe.arg[1], probe.arg[2])
  /\ probe.out = <<probe.arg[1], probe.arg[3]>>

\* the fixes of a list, as a set
FixSet(l) == {l[i] : i \in 1..Len(l)}

\* C19: threshold filtering is monotone: for thresholds t1 <= t2 the fixes
\* that survive t2 are among those that survive t1.
C19_ThresholdMonotone ==
  Did("filterFixesByUserThreshold") =>
     /\ FixSet(probe.out.hi) \subseteq FixSet(probe.out.lo)
     /\ Len(probe.out.hi) <= Len(probe.out.lo)

\* a list of which the lower threshold keeps more than the higher, and the
\* higher keeps something
C19_Witness ==
  /\ Did("filterFixesByUserThreshold")
  /\ probe.arg.t1 < probe.arg.t2
  /\ probe.out.hi # <<>>
  /\ Len(probe.out.hi) < Len(probe.out.lo)
  /\ Len(probe.out.lo) < Len(probe.arg.fixes)

\* both representative cells of a fix have a style hash
Styled(f, styles) ==
  DictContains(styles, f.rect1.upperleft) /\ DictContains(styles, f.rect2.upperleft)

\* C20: adjustProposedFixesByStyleHash changes neither the number nor the
\* order of the fixes; a fix whose two representative cells have the same
\* style hash keeps its score, one whose hashes differ gets a strictly
\* lower score.
C20_StyleAdjustment ==
  Did("adjustProposedFixesByStyleHash") =>
     /\ Len(probe.out) = Len(probe.arg.fixes)
     /\ \A i \in 1..Len(probe.out) :
           LET f == probe.arg.fixes[i]
               st == probe.arg.styles
           IN /\ probe.out[i].rect1 = f.rect1
              /\ probe.out[i].rect2 = f.rect2
              /\ Styled(f, st) =>
                   IF DictGet(st, f.rect1.upperleft) = DictGet(st, f.rect2.upperleft)
                   THEN probe.out[i].score = f.score
                   ELSE probe.out[i].score < f.score

\* a list with a fix across two styles followed by one within a style
C20_Witness ==
  /\ Did("adjustProposedFixesByStyleHash")
  /\ Len(probe.out) >= 2
  /\ Styled(probe.arg.fixes[1], probe.arg.styles)
  /\ Styled(probe.arg.fixes[2], probe.arg.styles)
  /\ probe.out[1].score < probe.arg.fixes[1].score
  /\ probe.out[2].score = probe.arg.fixes[2].score

\* the fixes a handler was handed: in a yielded value, or in the returned one
Surfaced(g) ==
  UNION {FixSet(g.yields[k].value.value) : k \in 1..Len(g.yields)}
  \cup UNION {FixSet(g.ret[k].value) : k \in 1..Len(g.ret)}

\* C18: every fix carried in a yielded or returned result of
\* incrementalFatCrossAnalysis, and every fix returned by
\* fullAnalysisOnCellChange, has a score of at least
\* Config.reportingThreshold after all adjustments.
C18_SurfacedScoresReachThreshold ==
  /\ \A h \in Handlers : \A f \in Surfaced(hs[h]) : f.score >= ReportingThreshold
  /\ probe.fn = "fullAnalysisOnCellChange" =>
        \A f \in FixSet(probe.out.value) : f.score >= ReportingThreshold

\* a 3x3 block of formula cells of which eight share one fingerprint and the
\* centre has another
RingScenario(fps) ==
  /\ Len(fps) = 9
  /\ \E o \in BlockOrigins :
        /\ {fps[i].key : i \in 1..9} = RectCells(Rect(o, VecAdd(o, Vec(2, 2, 0))))
        /\ \A i, j \in 1..9 :
              (fps[i].val = fps[j].val) =
                 ((fps[i].key = VecAdd(o, Vec(1, 1, 0))) = (fps[j].key = VecAdd(o, Vec(1, 1, 0))))

\* the centre of the block a fingerprint dictionary covers
Centre(fps) == VecAdd(fps[1].key, Vec(1, 1, 0))

C22_ToggleReturnsNewState ==
  /\ Did("toggleDebugState") =>
        /\ probe.out.returned = ~probe.arg.state.debug
        /\ probe.out.returned = FlushState(probe.out.comp).state.debug
  /\ Did("toggleStyleState") =>
        /\ probe.out.returned = ~probe.arg.state.use_styles
        /\ probe.out.returned = FlushState(probe.out.comp).state.use_styles

\* C23: at stage k the formula dictionary given to the Reference Extractor
\* is exactly the whole-range formula dictionary (read once, before stage 1)
\* restricted to the addresses inside arm k: no formula from outside the
\* arm, every formula cell inside it, each with its text, in the order of
\* the whole-range dictionary.  No stage modifies the whole-range
\* dictionary: from the moment it is read to the end of the analysis it is
\* what was read from the range.
C23_ArmRestriction ==
  \A h \in Handlers :
     LET g == hs[h]
         order == Steps(findFatCross(g.usedRange, g.addr))
         all == getFormulasFromRange(sheet, g.usedRange)
         inArm(k, e) == RangeContains(order[k], e.key)
     IN (g.pc \in {"color", "style", "compute", "return"} \/ Len(g.yields) > 0) =>
          /\ g.all_formulas = all
          /\ \A k \in 1..Len(g.yields) :
                LET in(e) == inArm(k, e) IN g.yields[k].fs = SelectSeq(g.all_formulas, in)

\* a full run in which an arm held some of the formulas of the range and
\* not all of them, and another arm held others
C23_Witness ==
  \E h \in Handlers :
     /\ Len(hs[h].yields) = 4
     /\ \E k, m \in 1..4 :
           /\ hs[h].yields[k].fs # <<>>
           /\ Len(hs[h].yields[k].fs) < Len(hs[h].all_formulas)
           /\ DictKeys(hs[h].yields[m].fs) \ DictKeys(hs[h].yields[k].fs) # {}

C25_PublishedIsConclusive ==
  \A h \in Handlers :
     (hs[h].pc = "done" /\ Len(hs[h].yields) = 4)
        => hs[h].published = <<hs[h].yields[4].value.value>>

\* C26: in every stage of the staged analysis the representative-formula
\* lookup made for the heuristic filter never hits an absent key: the
\* upper-left cell of every rectangle of the accumulated state (after
\* mergeRectangleDictionaries and mergeRectangles over the arms so far) is
\* the address of a formula cell of the whole-range formula dictionary, so
\* no stage fails at the lookup.
C26_RepresentativePresent ==
  \A h \in Handlers :
     LET g == hs[h]
     IN /\ \A r \in AllRects(g.rects) : DictContains(g.all_formulas, r.upperleft)
        /\ \A k \in 1..Len(g.yields) : \A r \in AllRects(g.yields[k].rects) :
              DictContains(g.all_formulas, r.upperleft)
        /\ g.failedAt > 0 => g.rejected

\* a full run over a range with a cell that holds no formula, in which a
\* stage looked the representative formulas of a fix up
C26_Witness ==
  \E h \in Handlers :
     /\ Len(hs[h].yields) = 4
     /\ \E c \in Cells :
           RangeContains(hs[h].usedRange, c) /\ ~DictContains(hs[h].all_formulas, c)
     /\ \E k \in 1..4 : hs[h].yields[k].pfs # <<>>

\* C27: debug colouring round-trips: after a full four-stage analysis with
\* debug colouring on, followed by restoreColors on the old-colour list the
\* analysis produced (one entry per arm, in stage order), every cell of
\* every arm has the fill colour it had before the analysis began (no
\* fill), the restore button's handler is cleared and canRestore is false.
C27_ColoursRoundTrip ==
  (probe.fn = "restoreColors" /\ Len(probe.arg) = 4 /\ faults = 0) =>
     /\ \A k \in 1..4 : \A c \in Cells :
           RangeContains(probe.arg[k].range, c) => fill[c] = NoFill
     /\ onclick = 0
     /\ ~canRestore

\* C28: after any sequence of selection-change events at most one "input"
\* listener installed by the App is registered on the formula input field;
\* it is the App's current inputListener and is bound to the address of the
\* single-cell selection processed last; a selection that is not a single
\* cell neither adds nor removes a listener (no listener is ever made for
\* it, and before any single-cell selection is processed there is none).
C28_OneListener ==
  /\ Cardinality(pane.listeners) <= 1
  /\ pane.processed = 0 => pane.listeners = {}
  /\ pane.processed > 0 =>
        /\ pane.sel[pane.processed].single
        /\ pane.listeners = {[id |-> pane.processed, addr |-> pane.sel[pane.processed].addr]}
        /\ pane.listeners = {pane.inputListener}
  /\ \A l \in pane.listeners : pane.sel[l.id].single

\* two single-cell selections of different cells were processed, the later
\* event first, and a selection of a range came after them
C28_Witness ==
  \E m, n, k \in 1..MaxSelections :
     /\ m < n /\ n < k
     /\ pane.sel[m].single /\ pane.sel[n].single /\ ~pane.sel[k].single
     /\ pane.sel[m].addr # pane.sel[n].addr
     /\ pane.sel[n].pc = "done" /\ pane.sel[k].pc = "done"
     /\ pane.processed = m

=============================================================================
